---------------------------- MODULE Spec2Model ----------------------------
(***************************************************************************)
(* udp_to_csv: a UDP receive loop (main) hands each datagram over an       *)
(* unbounded mpsc channel to one consumer thread (writer), which decodes   *)
(* the bytes as values of one configured type, renders them as             *)
(* comma-separated text in csv_string, and either prints that text per     *)
(* packet (no output file) or appends it to a file every 1000 packets.     *)
(*                                                                         *)
(* Text is modelled as a sequence of one-character strings, a diagnostic   *)
(* message as a one-element sequence holding the message.  Standard output *)
(* and standard error are taken to accept every write; opening and writing *)
(* the output file may fail.                                               *)
(***************************************************************************)
EXTENDS Integers, Sequences, FiniteSets

VARIABLES
    data_type,    \* Cli.data_type, fixed at startup
    output,       \* Cli.output: "None" or "Some"
    mainPc,       \* main: "start", "loop", "exited" (bind failed), "panicked",
                  \* "ended" (SpecDrop only: the producer dropped its Sender)
    writerPc,     \* writer thread: "none", "poll", "sleep", "done", "panicked"
    txAlive,      \* the Sender tx exists
    queue,        \* messages in the channel, oldest first
    csv_string,   \* writer's text buffer
    count,        \* writer's packet counter
    fileExists,   \* the output file exists
    file,         \* content of the output file
    stdout,       \* sequence of writes to standard output
    stderr,       \* sequence of messages on standard error
    recvLog,      \* history: the result, "ok" or "err", of each socket.recv
    received,     \* history: datagrams for which socket.recv returned Ok
    processed,    \* history: messages for which try_recv returned Ok
    sinceFlush,   \* history: messages processed since csv_string was last cleared
    flushes       \* history: calls of output_csv

vars == <<data_type, output, mainPc, writerPc, txAlive, queue, csv_string,
          count, fileExists, file, stdout, stderr,
          recvLog, received, processed, sinceFlush, flushes>>

-----------------------------------------------------------------------------
(* Bounds of the model *)

\* socket.recv calls that return (Ok or Err) in one run
MaxRecv == 3
\* longest datagram whose decoding is checked on its own (SpecDecode)
MaxDecodeLen == 3
\* packets the consumer has already accumulated in the warm initial state
WarmPackets == 998

\* datagrams the environment sends: empty; one byte (no whole element under
\* U16 and I16); two bytes, the first with the sign bit set
Packets == {<<>>, <<5>>, <<200, 5>>}

\* byte values of the datagrams of two bytes and more in SpecDecode: the
\* ends and the middle of the unsigned and of the signed range
EdgeBytes == {0, 1, 5, 127, 128, 200, 254, 255}

\* datagrams decoded on their own: the empty one, every single byte, and
\* every sequence of 2..MaxDecodeLen edge bytes
DecodeInputs ==
    {<<>>} \cup {<<b>> : b \in 0..255}
           \cup UNION {[1..n -> EdgeBytes] : n \in 2..MaxDecodeLen}

(* Program constants *)

\* if count >= 1000
Threshold == 1000

DataTypes == {"Bool", "U8", "U16", "I8", "I16"}

-----------------------------------------------------------------------------
(* Text *)

DigitChars == <<"0", "1", "2", "3", "4", "5", "6", "7", "8", "9">>

RECURSIVE Digits(_)
Digits(n) ==
    IF n < 10 THEN <<DigitChars[n + 1]>>
    ELSE Digits(n \div 10) \o <<DigitChars[(n % 10) + 1]>>

\* value.to_string() of an integer: canonical base 10, "-" for negatives
ToString(v) == IF v < 0 THEN <<"-">> \o Digits(-v) ELSE Digits(v)

\* String::pop: removes the last character, if there is one
Pop(s) == IF s = <<>> THEN s ELSE SubSeq(s, 1, Len(s) - 1)

\* csv_string.push_str(&value.to_string()); csv_string.push(',')
PushValue(s, v) == s \o ToString(v) \o <<",">>

-----------------------------------------------------------------------------
(* Decoding *)

\* a bit test that counts from the most significant bit
BitMsbFirst(value, i) == (value \div (2 ^ (7 - i))) % 2

\* value >> i & 1
Bit(value, i) == (value \div (2 ^ i)) % 2

\* for i in 0..8 { push bit i, push ',' }
RECURSIVE PushBits(_, _, _)
PushBits(s, value, i) ==
    IF i >= 8 THEN s ELSE PushBits(PushValue(s, Bit(value, i)), value, i + 1)

\* cursor.read_i8: two's complement
AsI8(b) == IF b >= 128 THEN b - 256 ELSE b

\* a little-endian read
AsU16LittleEndian(hi, lo) == lo * 256 + hi

\* cursor.read_u16::<NetworkEndian>: big-endian
AsU16(hi, lo) == hi * 256 + lo

\* cursor.read_i16::<NetworkEndian>
AsI16(hi, lo) == IF AsU16(hi, lo) >= 32768 THEN AsU16(hi, lo) - 65536 ELSE AsU16(hi, lo)

\* bytes one read consumes
Width(dt) == IF dt \in {"U16", "I16"} THEN 2 ELSE 1

\* a read loop that emits a trailing byte of U16/I16 as a value of its own
RECURSIVE ReadLoopPartial(_, _, _)
ReadLoopPartial(dt, msg, s) ==
    IF msg = <<>> THEN s
    ELSE IF Len(msg) < Width(dt) THEN PushValue(s, msg[1])
    ELSE CASE dt = "Bool" -> ReadLoopPartial(dt, Tail(msg), PushBits(s, msg[1], 0))
           [] dt = "U8"   -> ReadLoopPartial(dt, Tail(msg), PushValue(s, msg[1]))
           [] dt = "I8"   -> ReadLoopPartial(dt, Tail(msg), PushValue(s, AsI8(msg[1])))
           [] dt = "U16"  -> ReadLoopPartial(dt, Tail(Tail(msg)), PushValue(s, AsU16(msg[1], msg[2])))
           [] dt = "I16"  -> ReadLoopPartial(dt, Tail(Tail(msg)), PushValue(s, AsI16(msg[1], msg[2])))

\* the 'read loop of the configured type: reads until the cursor cannot supply
\* a whole element (UnexpectedEof), pushing each value followed by a comma
RECURSIVE ReadLoop(_, _, _)
ReadLoop(dt, msg, s) ==
    IF Len(msg) < Width(dt) THEN s
    ELSE CASE dt = "Bool" -> ReadLoop(dt, Tail(msg), PushBits(s, msg[1], 0))
           [] dt = "U8"   -> ReadLoop(dt, Tail(msg), PushValue(s, msg[1]))
           [] dt = "I8"   -> ReadLoop(dt, Tail(msg), PushValue(s, AsI8(msg[1])))
           [] dt = "U16"  -> ReadLoop(dt, Tail(Tail(msg)), PushValue(s, AsU16(msg[1], msg[2])))
           [] dt = "I16"  -> ReadLoop(dt, Tail(Tail(msg)), PushValue(s, AsI16(msg[1], msg[2])))

\* the values the cursor reads of the configured type return with Ok, in order
RECURSIVE Values(_, _)
Values(dt, msg) ==
    IF Len(msg) < Width(dt) THEN <<>>
    ELSE CASE dt = "Bool" -> [i \in 1..8 |-> Bit(msg[1], i - 1)] \o Values(dt, Tail(msg))
           [] dt = "U8"   -> <<msg[1]>> \o Values(dt, Tail(msg))
           [] dt = "I8"   -> <<AsI8(msg[1])>> \o Values(dt, Tail(msg))
           [] dt = "U16"  -> <<AsU16(msg[1], msg[2])>> \o Values(dt, Tail(Tail(msg)))
           [] dt = "I16"  -> <<AsI16(msg[1], msg[2])>> \o Values(dt, Tail(Tail(msg)))

\* the Ok(message) arm up to the output decision: decode, then csv_string.pop()
Format(dt, msg, s) == Pop(ReadLoop(dt, msg, s))

-----------------------------------------------------------------------------
(* The channel *)

\* a channel of capacity 1 (sync_channel(1)) in place of channel()
ChannelOfOne(q) == Len(q) < 1

\* mpsc::channel() is unbounded: a send never waits for room
ChannelHasRoom(q) == TRUE

\* a send that puts the message at the front of the queue
SendFront(q, m) == <<m>> \o q

\* tx.send(m): the message joins the back of the queue
Send(q, m) == Append(q, m)

\* rx.try_recv() returning Ok: the message at the front
Front(q) == Head(q)

\* the queue once try_recv has taken that message
Rest(q) == Tail(q)

\* the Receiver exists as long as the writer thread runs
RxAlive == writerPc \in {"poll", "sleep"}

-----------------------------------------------------------------------------
(* The output file *)

\* what one call of output_csv can do: open, write the text and the newline;
\* fail to open (unwrap panics); fail in writeln! before anything is written;
\* fail in writeln! after the text and before the newline
FlushOutcomes == {"ok", "open_err", "write_err", "write_err_partial"}

\* an output_csv that leaves the file alone when there is no text
FileAfterSkipEmpty(f, text, res) ==
    CASE text = <<>>               -> f
      [] res = "ok"                -> f \o text \o <<"\n">>
      [] res = "write_err_partial" -> f \o text
      [] OTHER                     -> f

\* an open without .append(true): each successful write starts the file anew
FileAfterTruncating(f, text, res) ==
    CASE res = "ok"                -> text \o <<"\n">>
      [] res = "write_err_partial" -> text
      [] res = "write_err"         -> f
      [] res = "open_err"          -> f

\* the file after output_csv(text) with that outcome (append mode)
FileAfter(f, text, res) ==
    CASE res = "ok"                -> f \o text \o <<"\n">>
      [] res = "write_err_partial" -> f \o text
      [] res = "write_err"         -> f
      [] res = "open_err"          -> f

\* .create(true).open(): the file exists once an open has succeeded
ExistsAfter(e, res) == e \/ res # "open_err"

\* what output_csv puts on standard error
FlushReport(res) ==
    CASE res = "ok"       -> <<>>
      [] res = "open_err" -> <<"panicked: called Result::unwrap() on an Err value">>
      [] OTHER            -> <<"Couldn't write to file">>

-----------------------------------------------------------------------------
(* Messages *)

BindReport      == "Could not bind to provided address"
InterfacesTitle == <<"Avaliable network interfaces: ">>
InterfacesList  == <<"interfaces">>
RecvReport      == "Error receiving message"
SendPanic       == "panicked: writer thread disconnected"
DisconnectNote  == "recv thread disconnected"

-----------------------------------------------------------------------------
(* Initial states *)

\* the datagram the consumer has been fed in the warm initial state
Filler == <<5>>

\* s after n more Fillers, none of which reached the threshold (the n steps
\* are split in halves, the first half computed before the second starts, to
\* keep the evaluation shallow)
RECURSIVE FormatFillers(_, _, _)
FormatFillers(dt, n, s) ==
    IF n = 0 THEN s
    ELSE IF n = 1 THEN Format(dt, Filler, s)
    ELSE LET half == FormatFillers(dt, n \div 2, s)
         IN  IF Len(half) >= 0 THEN FormatFillers(dt, n - (n \div 2), half) ELSE half

\* csv_string after n Fillers
WarmCsv(dt, n) == FormatFillers(dt, n, <<>>)

\* the process has just been started
InitFresh ==
    /\ data_type \in DataTypes
    /\ output \in {"None", "Some"}
    /\ mainPc = "start"
    /\ writerPc = "none"
    /\ txAlive = FALSE
    /\ queue = <<>>
    /\ csv_string = <<>>
    /\ count = 0
    /\ fileExists = FALSE
    /\ file = <<>>
    /\ stdout = <<>>
    /\ stderr = <<>>
    /\ recvLog = <<>>
    /\ received = <<>>
    /\ processed = <<>>
    /\ sinceFlush = <<>>
    /\ flushes = <<>>

\* file mode, WarmPackets Fillers received and processed, the queue drained:
\* the state the steps below reach from InitFresh after that many datagrams
InitWarm ==
    /\ WarmPackets < Threshold
    /\ data_type \in DataTypes
    /\ output = "Some"
    /\ mainPc = "loop"
    /\ writerPc = "poll"
    /\ txAlive = TRUE
    /\ queue = <<>>
    /\ csv_string = WarmCsv(data_type, WarmPackets)
    /\ count = WarmPackets
    /\ fileExists = FALSE
    /\ file = <<>>
    /\ stdout = <<>>
    /\ stderr = <<>>
    /\ recvLog = <<>>
    /\ received = [i \in 1..WarmPackets |-> Filler]
    /\ processed = [i \in 1..WarmPackets |-> Filler]
    /\ sinceFlush = [i \in 1..WarmPackets |-> Filler]
    /\ flushes = <<>>

Init == InitFresh \/ InitWarm

-----------------------------------------------------------------------------
(* main *)

\* a main that creates the channel and spawns the writer before it looks at
\* the result of bind
MainBindSpawnsFirst ==
    /\ mainPc = "start"
    /\ writerPc' = "poll"
    /\ txAlive' = TRUE
    /\ \/ /\ mainPc' = "loop"
          /\ UNCHANGED <<stdout, stderr>>
       \/ /\ mainPc' = "exited"
          /\ stderr' = Append(stderr, BindReport)
          /\ stdout' = stdout \o <<InterfacesTitle, InterfacesList>>
    /\ UNCHANGED <<data_type, output, queue, csv_string, count, fileExists, file,
                   recvLog, received, processed, sinceFlush, flushes>>

\* UdpSocket::bind, then on success the channel and the writer thread
MainBind ==
    /\ mainPc = "start"
    /\ \/ /\ mainPc' = "loop"
          /\ writerPc' = "poll"
          /\ txAlive' = TRUE
          /\ UNCHANGED <<stdout, stderr>>
       \/ /\ mainPc' = "exited"
          /\ stderr' = Append(stderr, BindReport)
          /\ stdout' = stdout \o <<InterfacesTitle, InterfacesList>>
          /\ UNCHANGED <<writerPc, txAlive>>
    /\ UNCHANGED <<data_type, output, queue, csv_string, count, fileExists, file,
                   recvLog, received, processed, sinceFlush, flushes>>

\* socket.recv returns Ok(len): tx.send(buffer[0..len].to_vec()).expect(..)
MainRecvOk ==
    /\ mainPc = "loop"
    /\ Len(recvLog) < MaxRecv
    /\ \E m \in Packets :
        /\ received' = Append(received, m)
        /\ IF RxAlive
             THEN /\ ChannelHasRoom(queue)
                  /\ queue' = Send(queue, m)
                  /\ UNCHANGED <<mainPc, txAlive, stderr>>
             ELSE /\ mainPc' = "panicked"
                  /\ txAlive' = FALSE
                  /\ stderr' = Append(stderr, SendPanic)
                  /\ UNCHANGED queue
    /\ recvLog' = Append(recvLog, "ok")
    /\ UNCHANGED <<data_type, output, writerPc, csv_string, count, fileExists, file,
                   stdout, processed, sinceFlush, flushes>>

\* a receive error that ends the loop
PcLeavesLoop == "panicked"

\* where main goes after socket.recv returned Err
PcAfterRecvErr == "loop"

\* a receive error that breaks out of the loop, main returning and dropping tx
MainRecvErrDropsSender ==
    /\ mainPc = "loop"
    /\ Len(recvLog) < MaxRecv
    /\ stderr' = Append(stderr, RecvReport)
    /\ mainPc' = "ended"
    /\ txAlive' = FALSE
    /\ recvLog' = Append(recvLog, "err")
    /\ UNCHANGED <<data_type, output, writerPc, queue, csv_string, count,
                   fileExists, file, stdout, received, processed, sinceFlush, flushes>>

\* socket.recv returns Err(e): eprintln!, next iteration
MainRecvErr ==
    /\ mainPc = "loop"
    /\ Len(recvLog) < MaxRecv
    /\ stderr' = Append(stderr, RecvReport)
    /\ mainPc' = PcAfterRecvErr
    /\ recvLog' = Append(recvLog, "err")
    /\ UNCHANGED <<data_type, output, writerPc, txAlive, queue, csv_string, count,
                   fileExists, file, stdout, received, processed, sinceFlush, flushes>>

-----------------------------------------------------------------------------
(* writer *)

\* a threshold test that is off by one
ThresholdPassed(c) == c > Threshold

\* if count >= 1000
ThresholdReached(c) == c >= Threshold

\* a clear that is left out
NotCleared(s) == s

\* csv_string.clear()
Cleared(s) == <<>>

\* the record of one output_csv call
FlushRecord(text, kind, res) == [text |-> text, kind |-> kind, result |-> res]

\* try_recv returns Ok(message): decode, pop, then print or count and flush
WriterProcess ==
    /\ writerPc = "poll"
    /\ queue # <<>>
    /\ LET m == Front(queue)
           s == Format(data_type, m, csv_string)
       IN  /\ processed' = Append(processed, m)
           /\ IF output = "None"
                THEN /\ stdout' = Append(stdout, s)
                     /\ csv_string' = Cleared(s)
                     /\ sinceFlush' = <<>>
                     /\ queue' = Rest(queue)
                     /\ UNCHANGED <<writerPc, count, fileExists, file, stderr, flushes>>
                ELSE IF ThresholdReached(count + 1)
                THEN \E res \in FlushOutcomes :
                     /\ file' = FileAfter(file, s, res)
                     /\ fileExists' = ExistsAfter(fileExists, res)
                     /\ stderr' = stderr \o FlushReport(res)
                     /\ flushes' = Append(flushes, FlushRecord(s, "threshold", res))
                     /\ IF res = "open_err"
                          THEN /\ writerPc' = "panicked"
                               /\ queue' = <<>>
                               /\ csv_string' = s
                               /\ count' = count + 1
                               /\ sinceFlush' = Append(sinceFlush, m)
                          ELSE /\ csv_string' = Cleared(s)
                               /\ count' = 0
                               /\ sinceFlush' = <<>>
                               /\ queue' = Rest(queue)
                               /\ UNCHANGED writerPc
                     /\ UNCHANGED stdout
                ELSE /\ csv_string' = s
                     /\ count' = count + 1
                     /\ sinceFlush' = Append(sinceFlush, m)
                     /\ queue' = Rest(queue)
                     /\ UNCHANGED <<writerPc, fileExists, file, stdout, stderr, flushes>>
    /\ UNCHANGED <<data_type, output, mainPc, txAlive, recvLog, received>>

\* try_recv returns Empty: thread::sleep(50 ms)
WriterSleep ==
    /\ writerPc = "poll"
    /\ queue = <<>>
    /\ txAlive
    /\ writerPc' = "sleep"
    /\ UNCHANGED <<data_type, output, mainPc, txAlive, queue, csv_string, count,
                   fileExists, file, stdout, stderr, recvLog, received, processed,
                   sinceFlush, flushes>>

\* the sleep ends: next iteration of the loop
WriterWake ==
    /\ writerPc = "sleep"
    /\ writerPc' = "poll"
    /\ UNCHANGED <<data_type, output, mainPc, txAlive, queue, csv_string, count,
                   fileExists, file, stdout, stderr, recvLog, received, processed,
                   sinceFlush, flushes>>

\* try_recv returns Disconnected: final print or output_csv, then return
WriterDisconnected ==
    /\ writerPc = "poll"
    /\ queue = <<>>
    /\ ~txAlive
    /\ IF output = "None"
         THEN /\ stdout' = Append(stdout, csv_string)
              /\ stderr' = Append(stderr, DisconnectNote)
              /\ writerPc' = "done"
              /\ UNCHANGED <<fileExists, file, flushes>>
         ELSE \E res \in FlushOutcomes :
              /\ file' = FileAfter(file, csv_string, res)
              /\ fileExists' = ExistsAfter(fileExists, res)
              /\ flushes' = Append(flushes, FlushRecord(csv_string, "shutdown", res))
              /\ IF res = "open_err"
                   THEN /\ writerPc' = "panicked"
                        /\ stderr' = stderr \o FlushReport(res)
                   ELSE /\ writerPc' = "done"
                        /\ stderr' = stderr \o FlushReport(res) \o <<DisconnectNote>>
              /\ UNCHANGED stdout
    /\ UNCHANGED <<data_type, output, mainPc, txAlive, queue, csv_string, count,
                   recvLog, received, processed, sinceFlush>>

\* the owner of tx lets go of it while the writer runs (a caller of writer
\* other than main's endless loop)
DropSender ==
    /\ mainPc = "loop"
    /\ txAlive
    /\ txAlive' = FALSE
    /\ mainPc' = "ended"
    /\ UNCHANGED <<data_type, output, writerPc, queue, csv_string, count, fileExists,
                   file, stdout, stderr, recvLog, received, processed, sinceFlush,
                   flushes>>

-----------------------------------------------------------------------------
(* Specifications *)

\* the program: main and the writer thread it spawns
Next ==
    \/ MainBind
    \/ MainRecvOk
    \/ MainRecvErr
    \/ WriterProcess
    \/ WriterSleep
    \/ WriterWake

Spec == Init /\ [][Next]_vars

\* the writer decoding one datagram: the socket is bound, the writer polls,
\* and one datagram of DecodeInputs has been received and queued
InitDecode ==
    /\ data_type \in DataTypes
    /\ output \in {"None", "Some"}
    /\ mainPc = "loop"
    /\ writerPc = "poll"
    /\ txAlive = TRUE
    /\ \E m \in DecodeInputs : queue = <<m>> /\ received = <<m>>
    /\ csv_string = <<>>
    /\ count = 0
    /\ fileExists = FALSE
    /\ file = <<>>
    /\ stdout = <<>>
    /\ stderr = <<>>
    /\ recvLog = <<"ok">>
    /\ processed = <<>>
    /\ sinceFlush = <<>>
    /\ flushes = <<>>

NextDecode == WriterProcess

SpecDecode == InitDecode /\ [][NextDecode]_vars

\* writer with a producer that can drop its Sender
NextDrop ==
    \/ MainBind
    \/ MainRecvOk
    \/ MainRecvErr
    \/ WriterProcess
    \/ WriterSleep
    \/ WriterWake
    \/ WriterDisconnected
    \/ DropSender

SpecDrop == Init /\ [][NextDrop]_vars

\* one iteration of the writer's loop: the thread, once spawned, keeps running
Writer == WriterProcess \/ WriterSleep \/ WriterWake

\* the program with a writer thread that is scheduled again and again
SpecFair == Spec /\ WF_vars(Writer)

-----------------------------------------------------------------------------
(* Helpers of the properties *)

IsPrefix(a, b) == Len(a) <= Len(b) /\ SubSeq(b, 1, Len(a)) = a

Last(q) == q[Len(q)]

\* values joined by commas, no comma after the last
RECURSIVE Joined(_)
Joined(vals) ==
    IF vals = <<>> THEN <<>>
    ELSE IF Len(vals) = 1 THEN ToString(vals[1])
    ELSE ToString(vals[1]) \o <<",">> \o Joined(Tail(vals))

\* one packet's rendering: its values joined by commas
Rendering(dt, msg) == Joined(Values(dt, msg))

\* the renderings of a sequence of packets, one after the other (computed by
\* halves: the sequences are up to Threshold long)
RECURSIVE RenderAll(_, _)
RenderAll(dt, msgs) ==
    IF msgs = <<>> THEN <<>>
    ELSE IF Len(msgs) = 1 THEN Rendering(dt, msgs[1])
    ELSE LET h == Len(msgs) \div 2
         IN  RenderAll(dt, SubSeq(msgs, 1, h)) \o RenderAll(dt, SubSeq(msgs, h + 1, Len(msgs)))

\* the writes of a stream, one after the other
RECURSIVE Flatten(_)
Flatten(writes) ==
    IF writes = <<>> THEN <<>>
    ELSE IF Len(writes) = 1 THEN writes[1]
    ELSE LET h == Len(writes) \div 2
         IN  Flatten(SubSeq(writes, 1, h)) \o Flatten(SubSeq(writes, h + 1, Len(writes)))

\* the characters of decoded CSV text
CsvChars == {DigitChars[i] : i \in 1..10} \cup {",", "-"}

IsCsvText(t) == \A i \in 1..Len(t) : t[i] \in CsvChars

NotNewline(c) == c # "\n"

\* the text that has reached the CSV output target
OutputText == IF output = "None" THEN Flatten(stdout) ELSE SelectSeq(file, NotNewline)

\* the step is one in which the writer takes a message from the queue
TakesMessage == Len(processed') > Len(processed)

\* the step is one in which output_csv is called
CallsOutputCsv == Len(flushes') > Len(flushes)

\* the writer's buffer after it has formatted msgs, in order, starting from s
RECURSIVE FormatAll(_, _, _)
FormatAll(dt, msgs, s) ==
    IF msgs = <<>> THEN s ELSE FormatAll(dt, Tail(msgs), Format(dt, Head(msgs), s))

-----------------------------------------------------------------------------
(* C1: datagram order is preserved end to end.  The messages the consumer *)
(* has taken are, in order, the first of the datagrams received; while    *)
(* the consumer runs, those taken followed by those still queued are      *)
(* exactly the datagrams received (none skipped, repeated or reordered);  *)
(* and the text is produced in that order: the console has one write per  *)
(* message taken, in order, and in file mode the buffer is the result of  *)
(* formatting the messages since the last flush in the order received.    *)
C1_OrderPreserved ==
    /\ IsPrefix(processed, received)
    /\ RxAlive => received = processed \o queue
    /\ (output = "None" /\ writerPc # "none") =>
          /\ Len(stdout) = Len(processed)
          /\ \A i \in 1..Len(stdout) : stdout[i] = Format(data_type, processed[i], <<>>)
    /\ (output = "Some" /\ Len(sinceFlush) <= MaxRecv) =>
          csv_string = FormatAll(data_type, sinceFlush, <<>>)

\* two different datagrams have been processed in turn, a third is queued
C1_Witness ==
    /\ Len(processed) = 2
    /\ processed[1] # processed[2]
    /\ Len(queue) = 1
    /\ queue[1] # processed[2]

-----------------------------------------------------------------------------
(* C7: console policy.  With no output file, once the consumer exists the *)
(* console has received exactly one write per message processed, the i-th *)
(* write being the rendering of the i-th message alone; csv_string is     *)
(* empty whenever the consumer is between packets; count stays 0 and      *)
(* output_csv is never called.                                            *)
C7_ConsolePolicy ==
    (output = "None" /\ writerPc # "none") =>
        /\ csv_string = <<>>
        /\ count = 0
        /\ flushes = <<>>
        /\ file = <<>>
        /\ Len(stdout) = Len(processed)
        /\ \A i \in 1..Len(stdout) : stdout[i] = Rendering(data_type, processed[i])

\* console mode: a one-byte and a two-byte datagram processed in turn
C7_Witness ==
    /\ output = "None"
    /\ Len(processed) = 2
    /\ processed[1] = <<5>>
    /\ processed[2] = <<200, 5>>
    /\ Len(stdout) = 2

-----------------------------------------------------------------------------
(* C8: a receive error never ends the receive loop.  A step in which      *)
(* socket.recv returns Err reports it on standard error, leaves the queue *)
(* and the consumer as they are and main in its loop; and a datagram      *)
(* received while the consumer runs is enqueued at the back, whatever     *)
(* errors came before it.                                                 *)
C8_RecvErrorContinues ==
    [][ /\ (Len(recvLog') > Len(recvLog) /\ Last(recvLog') = "err") =>
            /\ stderr' = Append(stderr, RecvReport)
            /\ mainPc' = "loop"
            /\ UNCHANGED <<queue, received, writerPc, txAlive, csv_string, count,
                           file, stdout>>
        /\ (Len(recvLog') > Len(recvLog) /\ Last(recvLog') = "ok" /\ RxAlive) =>
            /\ mainPc' = "loop"
            /\ queue' = Append(queue, Last(received'))
      ]_vars

\* a receive error was followed by a datagram that is now in the queue
C8_Witness ==
    /\ recvLog = <<"err", "ok">>
    /\ mainPc = "loop"
    /\ Len(queue) = 1
    /\ RecvReport \in {stderr[i] : i \in 1..Len(stderr)}

-----------------------------------------------------------------------------
(* C9: the receive loop never waits for the consumer.  Whenever main is   *)
(* in its loop and the consumer runs, the hand-off of a received datagram *)
(* is enabled, whatever the length of the queue and whether the consumer  *)
(* polls or sleeps (the guard on recvLog is the bound of the model on     *)
(* the number of datagrams, not a condition of the code).                 *)
C9_SendNeverBlocks ==
    (mainPc = "loop" /\ RxAlive /\ Len(recvLog) < MaxRecv) => ENABLED MainRecvOk

\* the consumer sleeps on a queue of two and main can still hand off
C9_Witness ==
    /\ mainPc = "loop"
    /\ writerPc = "sleep"
    /\ Len(queue) = 2
    /\ Len(recvLog) < MaxRecv

-----------------------------------------------------------------------------
(* C5: processing a packet only appends to the text buffer.  In a step    *)
(* that takes a message, the text the step leaves in csv_string (or, when *)
(* the step prints or flushes it, the text printed or flushed) is the     *)
(* buffer before the step followed by that message's values joined by     *)
(* commas, also for a message that decodes to no value.                   *)
C5_OnlyAppends ==
    [][ TakesMessage =>
          LET expected == csv_string \o Rendering(data_type, Head(queue))
          IN  IF output = "None" THEN Last(stdout') = expected
              ELSE IF CallsOutputCsv THEN Last(flushes').text = expected
              ELSE csv_string' = expected
      ]_vars

-----------------------------------------------------------------------------
(* C6: a failed file flush is recoverable.  In a step in which output_csv *)
(* fails (the open or the write), the failure is reported on standard     *)
(* error, the batch is dropped from csv_string, the consumer goes on      *)
(* polling and main stays in its loop.                                    *)
C6_FailedFlushRecoverable ==
    [][ (CallsOutputCsv /\ Last(flushes').result # "ok" /\ Last(flushes').kind = "threshold") =>
          /\ Len(stderr') = Len(stderr) + 1
          /\ csv_string' = <<>>
          /\ count' = 0
          /\ writerPc' = "poll"
          /\ mainPc' = mainPc
          /\ queue' = Tail(queue)
      ]_vars

-----------------------------------------------------------------------------
(* C10: diagnostics never reach the CSV output.  With no output file,     *)
(* every write to standard output is decoded CSV text; the file holds     *)
(* only CSV text and newlines; and no diagnostic (the interface listing   *)
(* and its title included) is written to standard output.                 *)
C10_DiagnosticsOffCsv ==
    /\ output = "None" => \A i \in 1..Len(stdout) : IsCsvText(stdout[i])
    /\ \A i \in 1..Len(file) : file[i] \in CsvChars \cup {"\n"}
    /\ \A i \in 1..Len(stdout) : stdout[i] \notin {InterfacesTitle, InterfacesList}

-----------------------------------------------------------------------------
(* C2: no decoded data is lost on normal shutdown.  Once the consumer has *)
(* returned after the producer let go of its Sender, with no output_csv   *)
(* call having failed, every datagram received has been processed, the    *)
(* queue is empty, and the text that reached the output (console writes,  *)
(* or file lines without their newlines) is the renderings of all the     *)
(* datagrams received, in order.                                          *)
C2_NoDataLostOnShutdown ==
    (writerPc = "done" /\ \A i \in 1..Len(flushes) : flushes[i].result = "ok") =>
        /\ processed = received
        /\ queue = <<>>
        /\ OutputText = RenderAll(data_type, received)

-----------------------------------------------------------------------------
(* C3: the shutdown flush happens once, with the pending batch.  In file  *)
(* mode, once the consumer has returned, the last output_csv call is the  *)
(* only shutdown flush and its text is the concatenated renderings of the *)
(* packets processed since the last threshold flush.                      *)
C3_ShutdownFlushOnce ==
    (writerPc = "done" /\ output = "Some") =>
        /\ flushes # <<>>
        /\ Last(flushes).kind = "shutdown"
        /\ \A i \in 1..(Len(flushes) - 1) : flushes[i].kind = "threshold"
        /\ Last(flushes).text = RenderAll(data_type, sinceFlush)

-----------------------------------------------------------------------------
-----------------------------------------------------------------------------
(* C11: a bind failure is fatal before the pipeline exists.  Once main    *)
(* has returned on a failed bind, the failure has been reported, and      *)
(* there is no channel and no consumer, no datagram has been received,    *)
(* output_csv has not been called and the output file has not been        *)
(* created.                                                               *)
C11_BindFailureFatal ==
    mainPc = "exited" =>
        /\ stderr = <<BindReport>>
        /\ writerPc = "none"
        /\ ~txAlive
        /\ queue = <<>>
        /\ recvLog = <<>> /\ received = <<>> /\ processed = <<>>
        /\ flushes = <<>>
        /\ ~fileExists /\ file = <<>>
        /\ ~ENABLED Next

\* main has returned on a failed bind with an output file configured
C11_Witness ==
    /\ mainPc = "exited"
    /\ output = "Some"
    /\ BindReport \in {stderr[i] : i \in 1..Len(stderr)}

-----------------------------------------------------------------------------
(* Helpers of the decoding properties *)

\* the text the writer produced for the one message it has processed
DecodedText == IF output = "None" THEN stdout[1] ELSE csv_string

\* the values a comma-separated text holds
CountValues(text) ==
    IF text = <<>> THEN 0
    ELSE 1 + Cardinality({i \in 1..Len(text) : text[i] = ","})

\* element width and range of a type, as the specification gives them
ElementWidth(dt) == IF dt \in {"U16", "I16"} THEN 2 ELSE 1

ElementRange(dt) ==
    CASE dt = "U8"  -> 0..255
      [] dt = "I8"  -> (-128)..127
      [] dt = "U16" -> 0..65535
      [] dt = "I16" -> (-32768)..32767
      [] OTHER      -> 0..1

\* one integer as a two's-complement, big-endian element of the type
EncodeOne(dt, x) ==
    CASE dt = "U8"  -> <<x>>
      [] dt = "I8"  -> <<IF x < 0 THEN x + 256 ELSE x>>
      [] dt = "U16" -> <<x \div 256, x % 256>>
      [] dt = "I16" -> LET u == IF x < 0 THEN x + 65536 ELSE x
                       IN  <<u \div 256, u % 256>>

RECURSIVE Encode(_, _)
Encode(dt, xs) ==
    IF xs = <<>> THEN <<>> ELSE EncodeOne(dt, Head(xs)) \o Encode(dt, Tail(xs))

\* reading base-10 text back
DigitValue(c) == CHOOSE d \in 0..9 : DigitChars[d + 1] = c

IsDigit(c) == \E d \in 0..9 : DigitChars[d + 1] = c

RECURSIVE ParseNat(_)
ParseNat(t) ==
    IF Len(t) = 1 THEN DigitValue(t[1])
    ELSE 10 * ParseNat(SubSeq(t, 1, Len(t) - 1)) + DigitValue(t[Len(t)])

ParseInt(t) == IF t[1] = "-" THEN 0 - ParseNat(Tail(t)) ELSE ParseNat(t)

\* canonical base 10: digits, no leading zero, a minus sign only before a
\* nonzero number
Canonical(t) ==
    LET d == IF t # <<>> /\ t[1] = "-" THEN Tail(t) ELSE t
    IN  /\ d # <<>>
        /\ \A i \in 1..Len(d) : IsDigit(d[i])
        /\ Len(d) > 1 => d[1] # "0"
        /\ (t[1] = "-") => d # <<"0">>

\* the fields of a comma-separated text
RECURSIVE Fields(_, _)
Fields(text, field) ==
    IF text = <<>> THEN <<field>>
    ELSE IF Head(text) = "," THEN <<field>> \o Fields(Tail(text), <<>>)
    ELSE Fields(Tail(text), Append(field, Head(text)))

ParseCsv(text) ==
    IF text = <<>> THEN <<>>
    ELSE LET fs == Fields(text, <<>>) IN [i \in 1..Len(fs) |-> ParseInt(fs[i])]

CanonicalCsv(text) ==
    text = <<>> \/ LET fs == Fields(text, <<>>) IN \A i \in 1..Len(fs) : Canonical(fs[i])

-----------------------------------------------------------------------------
(* C12: element count and silent truncation.  For a datagram of L bytes   *)
(* and a type of width w, the writer's text holds floor(L / w) values     *)
(* (8 * L for Bool); they are the decodings of the successive w-byte      *)
(* chunks, in buffer order; the last L mod w bytes yield no value; and    *)
(* nothing is reported on standard error.                                 *)
C12_ElementCount ==
    processed # <<>> =>
        LET m == processed[1]
            L == Len(m)
            w == ElementWidth(data_type)
            n == IF data_type = "Bool" THEN 8 * L ELSE L \div w
            v == Values(data_type, m)
        IN  /\ CountValues(DecodedText) = n
            /\ DecodedText = Joined(v)
            /\ Len(v) = n
            /\ \A i \in 1..n :
                 IF data_type = "Bool"
                   THEN v[i] = Values(data_type, <<m[((i - 1) \div 8) + 1]>>)[((i - 1) % 8) + 1]
                   ELSE <<v[i]>> = Values(data_type, SubSeq(m, (i - 1) * w + 1, i * w))
            /\ v = Values(data_type, SubSeq(m, 1, L - (L % w)))
            /\ stderr = <<>>

\* three bytes decoded as U16: one value, the third byte dropped
C12_Witness ==
    /\ data_type = "U16"
    /\ output = "Some"
    /\ processed = << <<1, 0, 255>> >>
    /\ csv_string = <<"2", "5", "6">>
    /\ stderr = <<>>

-----------------------------------------------------------------------------
(* C13: numeric round trip.  For a numeric type, the values decoded from  *)
(* a datagram are in the range of the type, their fixed-width             *)
(* two's-complement big-endian encoding is the datagram (without its      *)
(* incomplete last element), and the text is canonical base 10 that       *)
(* reads back as those values: every sequence of integers encoded that    *)
(* way decodes to itself.                                                 *)
C13_RoundTrip ==
    (processed # <<>> /\ data_type # "Bool") =>
        LET m == processed[1]
            w == ElementWidth(data_type)
            v == Values(data_type, m)
        IN  /\ \A i \in 1..Len(v) : v[i] \in ElementRange(data_type)
            /\ Encode(data_type, v) = SubSeq(m, 1, Len(m) - (Len(m) % w))
            /\ Values(data_type, Encode(data_type, v)) = v
            /\ CanonicalCsv(DecodedText)
            /\ ParseCsv(DecodedText) = v

\* the I16 value -2 has been decoded from ff fe 01 (the third byte dropped)
C13_Witness ==
    /\ data_type = "I16"
    /\ output = "None"
    /\ processed = << <<255, 254, 1>> >>
    /\ stdout = << <<"-", "2">> >>

-----------------------------------------------------------------------------
(* C14: Bool decoding.  Every byte yields 8 values, each 0 or 1, the i-th *)
(* being bit i of the byte, least significant first (so the values        *)
(* weighted by 2^i add up to the byte), each rendered as "0" or "1";      *)
(* the byte 5 yields 1,0,1,0,0,0,0,0.                                     *)
C14_BoolDecoding ==
    (processed # <<>> /\ data_type = "Bool") =>
        LET m == processed[1]
            v == ParseCsv(DecodedText)
        IN  /\ Len(v) = 8 * Len(m)
            /\ \A k \in 1..Len(v) : v[k] \in {0, 1}
            /\ \A j \in 1..Len(m) :
                 LET b(i) == v[8 * (j - 1) + i + 1]
                 IN  b(0) + 2 * b(1) + 4 * b(2) + 8 * b(3) + 16 * b(4) + 32 * b(5)
                       + 64 * b(6) + 128 * b(7) = m[j]
            /\ \A k \in 1..Len(DecodedText) : DecodedText[k] \in {"0", "1", ","}
            /\ Len(m) > 0 => Len(DecodedText) = 16 * Len(m) - 1
            /\ m = <<5>> =>
                 DecodedText = <<"1", ",", "0", ",", "1", ",", "0", ",", "0", ",",
                                 "0", ",", "0", ",", "0">>

\* the byte 5 has been decoded as Bool
C14_Witness ==
    /\ data_type = "Bool"
    /\ output = "None"
    /\ processed = << <<5>> >>
    /\ Len(stdout) = 1
    /\ Len(stdout[1]) = 15

-----------------------------------------------------------------------------
(* Helpers of the flush properties *)

\* the step is one in which the writer thread writes to the output target
WritesOutput == writerPc # "none" /\ (CallsOutputCsv \/ Len(stdout') > Len(stdout))

\* the text that step hands to print! or output_csv
WrittenText == IF output = "None" THEN Last(stdout') ELSE Last(flushes').text

\* the messages that step takes from the queue
Taken == SubSeq(processed', Len(processed) + 1, Len(processed'))

\* the writer thread has returned or panicked
WriterEnded == writerPc \in {"done", "panicked"}

-----------------------------------------------------------------------------
(* C15: flushed content is never written again.  The file and the console *)
(* only grow; a step that writes makes one write, of the buffer with the  *)
(* text of the message it takes, which holds the packets processed since  *)
(* the previous write and nothing of what was written before (compared    *)
(* in full while those packets are at most MaxRecv + 1); after it the     *)
(* buffer is empty, unless the writer thread has ended with that write; a *)
(* step that does not write keeps the old buffer as a prefix less at most *)
(* the popped character; and once the writer has ended nothing is written *)
(* any more.                                                              *)
C15_WrittenOnce ==
    [][ /\ IsPrefix(file, file')
        /\ IsPrefix(stdout, stdout')
        /\ WritesOutput =>
             /\ Len(stdout') + Len(flushes') = Len(stdout) + Len(flushes) + 1
             /\ WrittenText = FormatAll(data_type, Taken, csv_string)
             /\ Len(sinceFlush) <= MaxRecv =>
                  WrittenText = FormatAll(data_type, sinceFlush \o Taken, <<>>)
             /\ IF output = "None"
                  THEN file' = file
                  ELSE /\ stdout' = stdout
                       /\ file' \in {file, file \o WrittenText,
                                     file \o WrittenText \o <<"\n">>}
             /\ csv_string' = <<>> \/ WriterEnded'
        /\ (TakesMessage /\ ~WritesOutput) =>
             /\ csv_string' = FormatAll(data_type, Taken, csv_string)
             /\ sinceFlush' = sinceFlush \o Taken
        /\ WriterEnded => (file' = file /\ stdout' = stdout /\ flushes' = flushes)
      ]_vars

\* a threshold flush and then the shutdown flush have both written to the
\* file, the second one only the packet that came after the first
C15_Witness ==
    /\ writerPc = "done"
    /\ Len(flushes) = 2
    /\ flushes[1].kind = "threshold" /\ flushes[1].result = "ok"
    /\ flushes[2].kind = "shutdown" /\ flushes[2].result = "ok"
    /\ flushes[2].text = <<"2", "0", "0", ",", "5">>
    /\ file = flushes[1].text \o <<"\n">> \o flushes[2].text \o <<"\n">>

-----------------------------------------------------------------------------
(* Helpers of the counter properties *)

\* the output_csv calls made on reaching the threshold
ThresholdFlushes == SelectSeq(flushes, LAMBDA r : r.kind = "threshold")

-----------------------------------------------------------------------------
(* C16: the flush counter.  In file mode, whenever the writer is between  *)
(* packets (it has not panicked inside output_csv), count is the number   *)
(* of packets processed since the last threshold flush and lies in        *)
(* 0..999, so the packets processed are 1000 per threshold flush plus     *)
(* count; a step that takes a message adds exactly 1 to count or, being   *)
(* the threshold flush, resets it to 0, and no other step changes it.     *)
C16_FlushCounter ==
    [][ (output = "Some" /\ writerPc # "panicked" /\ writerPc' # "panicked") =>
          /\ count = Len(sinceFlush) /\ count' = Len(sinceFlush')
          /\ 0 <= count /\ count < Threshold
          /\ 0 <= count' /\ count' < Threshold
          /\ Len(processed) = Threshold * Len(ThresholdFlushes) + count
          /\ IF TakesMessage
               THEN /\ Len(processed') = Len(processed) + 1
                    /\ IF CallsOutputCsv
                         THEN count + 1 = Threshold /\ count' = 0
                         ELSE count' = count + 1
               ELSE count' = count
      ]_vars

\* the 1000th packet has been flushed and one more, decoding to no value,
\* has been counted
C16_Witness ==
    /\ output = "Some"
    /\ writerPc = "poll"
    /\ Len(processed) = Threshold + 1
    /\ Last(processed) = <<>>
    /\ Len(flushes) = 1
    /\ count = 1

-----------------------------------------------------------------------------
(* Helpers of the progress properties *)

\* the positions, in the order received, of the datagrams a run can hand over
HandOffs == (1..MaxRecv) \cup ((WarmPackets + 1)..(WarmPackets + MaxRecv))

\* the k-th datagram received has been handed to the queue (the send of the
\* last one failed if main panicked)
HandedOver(k) == Len(received) >= k /\ ~(mainPc = "panicked" /\ Len(received) = k)

\* the step is an iteration of the writer's loop
WriterStep == writerPc' # writerPc \/ TakesMessage \/ CallsOutputCsv

-----------------------------------------------------------------------------
(* C17: every enqueued packet is eventually processed.  With the writer   *)
(* thread scheduled fairly, every datagram handed to the queue is         *)
(* eventually taken and decoded by the writer; and a poll that finds the  *)
(* queue empty only puts the writer to sleep: it does not end the thread, *)
(* flush or write.                                                        *)
C17_EventuallyProcessed ==
    /\ \A k \in HandOffs : HandedOver(k) ~> (Len(processed) >= k)
    /\ [][ (WriterStep /\ writerPc = "poll" /\ queue = <<>>) =>
              /\ writerPc' = "sleep"
              /\ ~CallsOutputCsv
              /\ file' = file /\ stdout' = stdout /\ csv_string' = csv_string
         ]_vars

-----------------------------------------------------------------------------
(* C18: the producer stops only after the consumer has.  After a          *)
(* successful bind the receive loop is left only in a step in which the   *)
(* writer thread is already dead and a datagram has been received whose   *)
(* hand-off fails; that datagram reaches neither the queue nor the        *)
(* writer; it is the first one received after the writer died (every      *)
(* datagram received with the writer dead ends the loop, while a receive  *)
(* error does not); and whenever the loop has ended the writer has.       *)
C18_ProducerStopsLast ==
    [][ /\ (mainPc = "loop" /\ mainPc' # "loop") =>
             /\ ~RxAlive
             /\ writerPc = "panicked"
             /\ recvLog' = Append(recvLog, "ok")
             /\ Len(received') = Len(received) + 1
             /\ queue' = queue /\ processed' = processed
             /\ stderr' = Append(stderr, SendPanic)
        /\ (mainPc = "loop" /\ ~RxAlive /\ Len(received') > Len(received)) =>
             mainPc' = "panicked"
        /\ (mainPc = "loop" /\ Len(received') = Len(received)) => mainPc' = "loop"
        /\ mainPc' = "panicked" =>
             /\ ~RxAlive'
             /\ queue' = <<>>
             /\ Len(processed') < Len(received')
             /\ processed' = processed
      ]_vars

\* the writer died in the threshold flush, and the next datagram ended the
\* receive loop and was lost
C18_Witness ==
    /\ mainPc = "panicked"
    /\ writerPc = "panicked"
    /\ Last(recvLog) = "ok"
    /\ Len(processed) = Threshold
    /\ Len(received) = Threshold + 1
    /\ Last(stderr) = SendPanic

-----------------------------------------------------------------------------
(* C19: the shutdown-flush branch is unreachable from within the program. *)
(* In every state of the program, while the writer thread is alive the    *)
(* sender exists and main is in its receive loop, so the writer's         *)
(* Disconnected branch cannot be taken: the writer never returns, no      *)
(* output_csv call is a shutdown flush, and the disconnect note is never  *)
(* printed; in file mode the text of the packets since the last threshold *)
(* flush is in the buffer and not in the file, which holds nothing but    *)
(* what threshold flushes wrote.                                          *)
C19_ShutdownFlushUnreachable ==
    /\ ~ENABLED WriterDisconnected
    /\ writerPc # "done"
    /\ RxAlive => (txAlive /\ mainPc = "loop")
    /\ \A i \in 1..Len(flushes) : flushes[i].kind = "threshold"
    /\ \A i \in 1..Len(stderr) : stderr[i] # DisconnectNote
    /\ (output = "Some" /\ RxAlive) =>
          /\ Len(sinceFlush) = count
          /\ Len(sinceFlush) <= MaxRecv => csv_string = FormatAll(data_type, sinceFlush, <<>>)
          /\ flushes = <<>> => file = <<>>
          /\ Len(file) <= Len(Flatten([i \in 1..Len(flushes) |-> flushes[i].text]))
                            + Len(flushes)

\* file mode, every datagram the run can receive has arrived and been
\* processed, the writer sleeps on an empty queue with text in its buffer,
\* and the file is empty
C19_Witness ==
    /\ output = "Some"
    /\ writerPc = "sleep"
    /\ queue = <<>>
    /\ Len(recvLog) = MaxRecv
    /\ Len(processed) = MaxRecv
    /\ csv_string # <<>>
    /\ file = <<>> /\ flushes = <<>>

-----------------------------------------------------------------------------
(* Helpers of the line count *)

\* the newline-terminated lines of a file
NumLines(f) == Cardinality({i \in 1..Len(f) : f[i] = "\n"})

\* the file ends with an empty line
LastLineEmpty(f) ==
    /\ f # <<>>
    /\ Last(f) = "\n"
    /\ Len(f) > 1 => f[Len(f) - 1] = "\n"

AllFlushesOk == \A i \in 1..Len(flushes) : flushes[i].result = "ok"

-----------------------------------------------------------------------------
(* C20: the shutdown flush in file mode is unconditional.  When the       *)
(* writer has returned after seeing the sender gone, with N packets       *)
(* processed and no failed write, its last output_csv call was the        *)
(* shutdown flush, which appended the buffer and a newline as the last    *)
(* line of the file even when the buffer was empty; the file has exactly  *)
(* floor(N / 1000) + 1 lines, and the last one is empty when N is a       *)
(* multiple of 1000.                                                      *)
C20_ShutdownFlushUnconditional ==
    (writerPc = "done" /\ output = "Some" /\ AllFlushesOk) =>
        LET N == Len(processed)
        IN  /\ flushes # <<>>
            /\ Last(flushes).kind = "shutdown"
            /\ Last(flushes).text = csv_string
            /\ Len(file) > Len(csv_string)
            /\ SubSeq(file, Len(file) - Len(csv_string), Len(file)) = csv_string \o <<"\n">>
            /\ \A i \in 1..Len(csv_string) : csv_string[i] # "\n"
            /\ Len(flushes) = (N \div Threshold) + 1
            /\ NumLines(file) = (N \div Threshold) + 1
            /\ (N % Threshold = 0) => (csv_string = <<>> /\ LastLineEmpty(file))

\* shut down right after the 1000th packet: the threshold line, then an
\* empty line
C20_Witness ==
    /\ writerPc = "done"
    /\ output = "Some"
    /\ AllFlushesOk
    /\ Len(processed) = Threshold
    /\ csv_string = <<>>
    /\ NumLines(file) = 2
    /\ LastLineEmpty(file)

=============================================================================
